---- MODULE Spec2Model ----
(***************************************************************************)
(* A model of sciscan_io.py: the SciScanStack constructor (directory scan, *)
(* descriptor parsing, shape derivation, size check, memory-mapped view),  *)
(* and the helpers replace_problem_chars, Bunch and str2num.               *)
(*                                                                         *)
(* A Python str is a sequence of one-character strings; None is the empty  *)
(* sequence where a path is expected.                                      *)
(***************************************************************************)
EXTENDS Integers, Sequences, FiniteSets, TLC

VARIABLES
    pc,              \* position in the program being run
    arg,             \* argument of the pure function under study
    ret,             \* its result
    fs,              \* the directory's files: path -> content
    listing,         \* os.listdir(dirpath), in the order the scan meets it
    scan_i,          \* index of the next directory entry of the scan loop
    mode,            \* the constructor's mode argument
    ini_path,
    raw_path,
    line_no,         \* index of the next descriptor line of the parse loop
    metadata,        \* the Bunch being filled: sanitized key -> typed value
    warnings,        \* the warnings.warn calls made so far, in order
    shape,
    dim_names,
    nbytes,
    expected_nbytes,
    self_shape,      \* self.shape, <<>> until assigned
    self_dim_names,  \* self.dim_names, <<>> until assigned
    frames,          \* self.frames, the np.memmap view; NoView until constructed
    error,           \* the exception that ended the call, "" if none
    failed_at,       \* the constructor phase that raised it
    round,           \* 1: first construction, 2: the read-only reopening
    last_write       \* history: the last assignment made through the view

vars == <<pc, arg, ret, fs, listing, scan_i, mode, ini_path, raw_path, line_no,
          metadata, warnings, shape, dim_names, nbytes, expected_nbytes,
          self_shape, self_dim_names, frames, error, failed_at, round, last_write>>

----------------------------------------------------------------------------
(* Python str primitives                                                   *)

None == <<>>

Whitespace == {" ", "\t", "\n", "\r", "\f"}

Digits == <<"0", "1", "2", "3", "4", "5", "6", "7", "8", "9">>

UpperCase == <<"A", "B", "C", "D", "E", "F", "G", "H", "I", "J", "K", "L", "M",
               "N", "O", "P", "Q", "R", "S", "T", "U", "V", "W", "X", "Y", "Z">>

LowerCase == <<"a", "b", "c", "d", "e", "f", "g", "h", "i", "j", "k", "l", "m",
               "n", "o", "p", "q", "r", "s", "t", "u", "v", "w", "x", "y", "z">>

IsDigit(c) == \E d \in 1..10 : Digits[d] = c

DigitVal(c) == (CHOOSE d \in 1..10 : Digits[d] = c) - 1

\* str.lower(), one character
LowerChar(c) ==
    IF \E k \in 1..26 : UpperCase[k] = c
    THEN LowerCase[CHOOSE k \in 1..26 : UpperCase[k] = c]
    ELSE c

\* str.lower()
Lower(s) == [k \in 1..Len(s) |-> LowerChar(s[k])]

\* s[from:] (from is 1-based)
Drop(s, from) == SubSeq(s, from, Len(s))

\* s.startswith(p)
StartsWith(s, p) == Len(s) >= Len(p) /\ SubSeq(s, 1, Len(p)) = p

\* old in s
Contains(s, old) == \E k \in 1..(Len(s) - Len(old) + 1) : SubSeq(s, k, k + Len(old) - 1) = old

\* s.replace(old, new) for a non-empty old: one left-to-right pass over
\* non-overlapping occurrences; the replacement text is not rescanned.
RECURSIVE Replace(_, _, _)
Replace(s, old, new) ==
    IF s = <<>> THEN <<>>
    ELSE IF StartsWith(s, old) THEN new \o Replace(Drop(s, Len(old) + 1), old, new)
    ELSE <<s[1]>> \o Replace(Tail(s), old, new)

\* s.split(sep) for a one-character sep: the fields between the separators
RECURSIVE Split(_, _)
Split(s, sep) ==
    IF \A k \in 1..Len(s) : s[k] # sep THEN <<s>>
    ELSE LET k == CHOOSE j \in 1..Len(s) : s[j] = sep /\ \A h \in 1..(j - 1) : s[h] # sep
         IN  <<SubSeq(s, 1, k - 1)>> \o Split(Drop(s, k + 1), sep)

\* s.strip()
RECURSIVE LStrip(_)
LStrip(s) == IF s # <<>> /\ s[1] \in Whitespace THEN LStrip(Tail(s)) ELSE s

RECURSIVE RStrip(_)
RStrip(s) ==
    IF s # <<>> /\ s[Len(s)] \in Whitespace THEN RStrip(SubSeq(s, 1, Len(s) - 1)) ELSE s

Strip(s) == RStrip(LStrip(s))

----------------------------------------------------------------------------
(* Typed values: what str2num returns and the Bunch stores.  One record    *)
(* shape for the four Python types: n is the int, the bool as 0/1, or the  *)
(* float's decimal mantissa; e is the float's decimal exponent (the float  *)
(* is n * 10^e, normalised so that n has no trailing zero); s is the str,  *)
(* or "inf" / "-inf" / "nan" for a float that is no finite number.         *)

VBool(b) == [type |-> "bool", n |-> IF b THEN 1 ELSE 0, e |-> 0, s |-> <<>>]

VInt(n) == [type |-> "int", n |-> n, e |-> 0, s |-> <<>>]

VStr(s) == [type |-> "str", n |-> 0, e |-> 0, s |-> s]

VSpecial(name) == [type |-> "float", n |-> 0, e |-> 0, s |-> name]

RECURSIVE VFloat(_, _)
VFloat(m, e) ==
    IF m = 0 THEN [type |-> "float", n |-> 0, e |-> 0, s |-> <<>>]
    ELSE IF m % 10 = 0 THEN VFloat(m \div 10, e + 1)
    ELSE [type |-> "float", n |-> m, e |-> e, s |-> <<>>]

----------------------------------------------------------------------------
(* int(s) and float(s) on a str, as CPython parses them                    *)

\* A run of decimal digits, single underscores allowed between digits.
DigitGroup(s) ==
    /\ s # <<>>
    /\ \A k \in 1..Len(s) : IsDigit(s[k]) \/ s[k] = "_"
    /\ IsDigit(s[1]) /\ IsDigit(s[Len(s)])
    /\ ~ Contains(s, <<"_", "_">>)

\* The digits of a digit group, underscores dropped.
OnlyDigits(s) == SelectSeq(s, IsDigit)

RECURSIVE Num(_)
Num(ds) == IF ds = <<>> THEN 0 ELSE 10 * Num(SubSeq(ds, 1, Len(ds) - 1)) + DigitVal(ds[Len(ds)])

HasSign(s) == s # <<>> /\ s[1] \in {"+", "-"}

Unsigned(s) == IF HasSign(s) THEN Tail(s) ELSE s

Signed(s, n) == IF HasSign(s) /\ s[1] = "-" THEN 0 - n ELSE n

\* int(s) does not raise ValueError
IsIntLiteral(s) == DigitGroup(Unsigned(Strip(s)))

\* int(s)
IntValue(s) == Signed(Strip(s), Num(OnlyDigits(Unsigned(Strip(s)))))

\* Position of the first character of s that is in cs, 0 if there is none.
FirstOf(s, cs) ==
    IF \E k \in 1..Len(s) : s[k] \in cs
    THEN CHOOSE k \in 1..Len(s) : s[k] \in cs /\ \A h \in 1..(k - 1) : s[h] \notin cs
    ELSE 0

\* The parts of a decimal float literal u (unsigned, stripped):
\* integer digits, fraction digits, exponent text, and which marks occur.
FloatParts(u) ==
    LET ePos  == FirstOf(u, {"e", "E"})
        mant  == IF ePos = 0 THEN u ELSE SubSeq(u, 1, ePos - 1)
        expo  == IF ePos = 0 THEN <<>> ELSE Drop(u, ePos + 1)
        dPos  == FirstOf(mant, {"."})
    IN  [ip     |-> IF dPos = 0 THEN mant ELSE SubSeq(mant, 1, dPos - 1),
         fp     |-> IF dPos = 0 THEN <<>> ELSE Drop(mant, dPos + 1),
         ex     |-> expo,
         hasExp |-> ePos # 0]

InfNanNames == { <<"i", "n", "f">>, <<"i", "n", "f", "i", "n", "i", "t", "y">>, <<"n", "a", "n">> }

IsDecimalFloat(u) ==
    LET p == FloatParts(u)
    IN  /\ p.ip = <<>> \/ DigitGroup(p.ip)
        /\ p.fp = <<>> \/ DigitGroup(p.fp)
        /\ p.ip # <<>> \/ p.fp # <<>>
        /\ p.hasExp => DigitGroup(Unsigned(p.ex))

\* float(s) does not raise ValueError
IsFloatLiteral(s) ==
    LET u == Unsigned(Strip(s))
    IN  Lower(u) \in InfNanNames \/ IsDecimalFloat(u)

\* float(s)
FloatValue(s) ==
    LET t == Strip(s)
        u == Unsigned(t)
        p == FloatParts(u)
        fd == OnlyDigits(p.fp)
    IN  IF Lower(u) = <<"n", "a", "n">> THEN VSpecial(<<"n", "a", "n">>)
        ELSE IF Lower(u) \in InfNanNames
             THEN VSpecial(IF HasSign(t) /\ t[1] = "-" THEN <<"-", "i", "n", "f">>
                           ELSE <<"i", "n", "f">>)
        ELSE VFloat(Signed(t, Num(OnlyDigits(p.ip) \o fd)),
                    (IF p.hasExp THEN Signed(p.ex, Num(OnlyDigits(Unsigned(p.ex)))) ELSE 0)
                        - Len(fd))

----------------------------------------------------------------------------
(* str2num                                                                 *)

StrTrue == <<"t", "r", "u", "e">>

StrFalse == <<"f", "a", "l", "s", "e">>

\* tt(s) does not raise ValueError, for tt one of int, float
CastOk(tt, s) == IF tt = "int" THEN IsIntLiteral(s) ELSE IsFloatLiteral(s)

\* tt(s)
Cast(tt, s) == IF tt = "int" THEN VInt(IntValue(s)) ELSE FloatValue(s)

\* Faulty variant: float is tried before int.
CastOrderFloatFirst == <<"float", "int">>

\* The types str2num tries, in order.
CastOrder == <<"int", "float">>

\* for tt in (int, float): try: return tt(s) / except ValueError: continue;
\* falling out of the loop returns s
RECURSIVE TryCasts(_, _)
TryCasts(s, tts) ==
    IF tts = <<>> THEN VStr(s)
    ELSE IF CastOk(Head(tts), s) THEN Cast(Head(tts), s)
    ELSE TryCasts(s, Tail(tts))

str2num(s) ==
    IF Lower(s) = StrTrue THEN VBool(TRUE)
    ELSE IF Lower(s) = StrFalse THEN VBool(FALSE)
    ELSE TryCasts(s, CastOrder)

----------------------------------------------------------------------------
(* replace_problem_chars                                                   *)

rules == << <<(<<"\"">>), <<>> >>,
            <<(<<".", ".">>), <<".">> >>,
            <<(<<"(">>), <<>> >>,
            <<(<<")">>), <<>> >>,
            <<(<<"-">>), <<>> >> >>

RECURSIVE ApplyRules(_, _)
ApplyRules(s, rs) ==
    IF rs = <<>> THEN s
    ELSE ApplyRules(Replace(s, Head(rs)[1], Head(rs)[2]), Tail(rs))

replace_problem_chars(s) == ApplyRules(s, rules)

----------------------------------------------------------------------------
(* Key sanitization (the two key.replace calls of the parse loop)          *)

\* Faulty variant: the two replacements are made in the other order.
sanitize_key_swapped(key) == Replace(Replace(key, <<"_", "_">>, <<"_">>), <<".">>, <<"_">>)

sanitize_key(key) == Replace(Replace(key, <<".">>, <<"_">>), <<"_", "_">>, <<"_">>)

----------------------------------------------------------------------------
(* Bunch: a dict whose __dict__ is itself (self.__dict__ = self), so an    *)
(* attribute lookup finds the dict's entries.  An entry shadows a method   *)
(* of dict of the same name: dict's methods are not data descriptors, and  *)
(* the instance dictionary is searched before them.                        *)

Bunch == << >>

StrUpdate == <<"u", "p", "d", "a", "t", "e">>

\* md.name finds a value
HasAttr(md, name) == name \in DOMAIN md

\* md.update is still dict.update (no entry "update" shadows it)
UpdateCallable(md) == ~ HasAttr(md, StrUpdate)

\* md.update({key: val})
Update(md, key, val) == [k \in DOMAIN md \cup {key} |-> IF k = key THEN val ELSE md[k]]

----------------------------------------------------------------------------
(* The descriptor parse loop, one line                                     *)

EmptyValues == { <<>>, <<"\"", "\"">> }

\* key, val = (vv.strip() for vv in line.split('=')) does not raise ValueError
Unpacks(line) == Len(Split(line, "=")) = 2

LineKey(line) == Strip(Split(line, "=")[1])

LineVal(line) == Strip(Split(line, "=")[2])

\* The line reaches metadata.update
Stores(line) == Unpacks(line) /\ LineVal(line) \notin EmptyValues

\* The exception that leaves the loop body uncaught at this line, "" if none:
\* calling metadata.update when an entry "update" shadows the method raises
\* TypeError, which the except ValueError clause does not catch.
LineError(md, line) ==
    IF Stores(line) /\ ~ UpdateCallable(md) THEN "TypeError" ELSE ""

\* metadata after the loop body has run on the line
ParseLine(md, line) ==
    IF Stores(line)
    THEN Update(md, sanitize_key(LineKey(line)), str2num(replace_problem_chars(LineVal(line))))
    ELSE md

----------------------------------------------------------------------------
(* The directory scan                                                      *)

dirpath == <<"d">>

\* os.path.join(dirpath, ff)
Join(dir, ff) == dir \o <<"/">> \o ff

\* os.path.splitext(ff)[1]: from the last dot on, unless only dots precede it
SplitExt(ff) ==
    LET dots == {k \in 1..Len(ff) : ff[k] = "."}
        dot  == IF dots = {} THEN 0 ELSE CHOOSE k \in dots : \A h \in dots : h <= k
    IN  IF dot > 0 /\ \E k \in 1..(dot - 1) : ff[k] # "." THEN Drop(ff, dot) ELSE <<>>

ExtRaw == <<".", "r", "a", "w">>

ExtIni == <<".", "i", "n", "i">>

----------------------------------------------------------------------------
(* Shape derivation                                                        *)

AttrExperimentType == <<"e", "x", "p", "e", "r", "i", "m", "e", "n", "t", "_", "t", "y", "p", "e">>

AttrXPixels == <<"x", "_", "p", "i", "x", "e", "l", "s">>

AttrYPixels == <<"y", "_", "p", "i", "x", "e", "l", "s">>

AttrChannels == <<"n", "o", "_", "o", "f", "_", "c", "h", "a", "n", "n", "e", "l", "s">>

AttrFrames == <<"n", "o", "_", "o", "f", "_", "f", "r", "a", "m", "e", "s", "_", "t", "o", "_", "a", "c", "q", "u", "i", "r", "e">>

XYT == <<"X", "Y", "T">>

RECURSIVE Pow10(_)
Pow10(k) == IF k <= 0 THEN 1 ELSE 10 * Pow10(k - 1)

\* The exception int(v) raises on a typed value, "" if none
IntError(v) ==
    IF v.type = "str" THEN (IF IsIntLiteral(v.s) THEN "" ELSE "ValueError")
    ELSE IF v.type = "float" /\ v.s = <<"n", "a", "n">> THEN "ValueError"
    ELSE IF v.type = "float" /\ v.s # <<>> THEN "OverflowError"
    ELSE ""

\* int(v), when it does not raise: a float is truncated towards zero
IntOf(v) ==
    IF v.type = "str" THEN IntValue(v.s)
    ELSE IF v.type = "float"
         THEN (IF v.e >= 0 THEN v.n * Pow10(v.e)
               ELSE IF v.n >= 0 THEN v.n \div Pow10(0 - v.e)
               ELSE 0 - ((0 - v.n) \div Pow10(0 - v.e)))
    ELSE v.n

\* The exception int(metadata.<name>) raises, "" if none
AttrIntError(md, name) ==
    IF ~ HasAttr(md, name) THEN "AttributeError" ELSE IntError(md[name])

RequiredAttrs == <<AttrXPixels, AttrYPixels, AttrChannels, AttrFrames>>

\* The first exception of lines 80-83, which read the four attributes in order
ShapeError(md) ==
    IF \A k \in 1..4 : AttrIntError(md, RequiredAttrs[k]) = "" THEN ""
    ELSE AttrIntError(md, RequiredAttrs[CHOOSE k \in 1..4 :
             /\ AttrIntError(md, RequiredAttrs[k]) # ""
             /\ \A h \in 1..(k - 1) : AttrIntError(md, RequiredAttrs[h]) = ""])

\* Faulty variant: the channel axis is kept whenever there is at least one channel.
HasChannelAxisFromOne(nc) == nc >= 1

\* if nc > 1
HasChannelAxis(nc) == nc > 1

ShapeOf(nx, ny, nc, nframes) ==
    IF HasChannelAxis(nc) THEN <<nframes, nc, ny, nx>> ELSE <<nframes, ny, nx>>

DimNamesOf(nc) ==
    IF HasChannelAxis(nc) THEN <<"T", "C", "Y", "X">> ELSE <<"T", "Y", "X">>

\* DTYPE.itemsize of '>u2'
ItemSize == 2

\* np.prod(shape)
RECURSIVE Prod(_)
Prod(sh) == IF sh = <<>> THEN 1 ELSE Head(sh) * Prod(Tail(sh))

----------------------------------------------------------------------------
(* np.memmap(raw_path, dtype='>u2', offset=0, mode=mode, shape=shape) and  *)
(* the array it returns.  A file is its sequence of bytes.  The shapes of  *)
(* this model have no zero dimension.                                      *)

Modes == {"r", "r+", "w+", "c"}

Zeros(n) == [k \in 1..n |-> 0]

\* The file once np.memmap has opened it: mode w+ opens with 'w+b', which
\* truncates; r and c open with 'rb', r+ with 'r+b'.
Opened(content, m) == IF m = "w+" THEN <<>> ELSE content

\* The file once np.memmap has sized it: in modes w+ and r+ a file shorter
\* than the array is extended to its size, with zeros.
Sized(content, m, bytes) ==
    LET f == Opened(content, m)
    IN  IF m \in {"w+", "r+"} /\ Len(f) < bytes THEN f \o Zeros(bytes - Len(f)) ELSE f

\* mmap.mmap raises ValueError when the length to map exceeds the file's size
MemmapError(content, m, bytes) ==
    IF bytes > Len(Sized(content, m, bytes)) THEN "ValueError" ELSE ""

NoView == [path |-> None, mode |-> "", shape |-> <<>>, priv |-> <<>>, dirty |-> FALSE]

\* The view: in mode c (copy-on-write) the mapped bytes are private to it.
View(path, content, m, sh) ==
    [path |-> path, mode |-> m, shape |-> sh,
     priv |-> IF m = "c" THEN SubSeq(content, 1, Prod(sh) * ItemSize) ELSE <<>>,
     dirty |-> FALSE]

\* The indices of an array of this shape, 0-based
Indices(sh) ==
    LET top == CHOOSE m \in {sh[k] : k \in 1..Len(sh)} : \A k \in 1..Len(sh) : sh[k] <= m
    IN  {idx \in [1..Len(sh) -> 0..(top - 1)] : \A k \in 1..Len(sh) : idx[k] < sh[k]}

\* The position of element idx in C (row-major) order, 0-based
RECURSIVE FlatIndex(_, _)
FlatIndex(sh, idx) ==
    IF Len(idx) = 0 THEN 0
    ELSE FlatIndex(SubSeq(sh, 1, Len(sh) - 1), SubSeq(idx, 1, Len(idx) - 1)) * sh[Len(sh)]
         + idx[Len(idx)]

\* Faulty variant: the low byte is stored first (dtype '<u2').
LittleEndianBytes(v) == <<v % 256, v \div 256>>

\* The bytes of a '>u2' sample: high byte first (DTYPE)
SampleBytes(v) == <<v \div 256, v % 256>>

\* bytes with the sample at element position pos replaced by v
Poke(bytes, pos, v) ==
    [k \in 1..Len(bytes) |->
        IF k = ItemSize * pos + 1 THEN SampleBytes(v)[1]
        ELSE IF k = ItemSize * pos + 2 THEN SampleBytes(v)[2]
        ELSE bytes[k]]

\* The bytes a view reads: its private copy in mode c, the file otherwise
Mapped(view, files) == IF view.mode = "c" THEN view.priv ELSE files[view.path]

\* view[idx]
ReadElem(view, files, idx) ==
    LET b == Mapped(view, files)
        pos == FlatIndex(view.shape, idx)
    IN  256 * b[ItemSize * pos + 1] + b[ItemSize * pos + 2]

----------------------------------------------------------------------------
(* SciScanStack.__init__, phase by phase                                   *)

NoWrite == [idx |-> <<>>, val |-> 0, before |-> <<>>, mode |-> "", flushed |-> FALSE, count |-> 0]

Raise(exc, phase) ==
    /\ pc' = "failed"
    /\ error' = exc
    /\ failed_at' = phase

\* Faulty variant: a path once found is kept, the first match wins.
FoundFirst(path, ff) == IF path = None THEN Join(dirpath, ff) ELSE path

\* raw_path = os.path.join(dirpath, ff), and ini_path alike: a later match
\* overwrites an earlier one
Found(path, ff) == Join(dirpath, ff)

\* One pass of the loop over os.listdir(dirpath) (lines 46-51)
ScanEntry ==
    /\ pc = "scan"
    /\ scan_i <= Len(listing)
    /\ LET ff == listing[scan_i]
           ext == SplitExt(ff)
       IN  /\ raw_path' = IF ext = ExtRaw THEN Found(raw_path, ff) ELSE raw_path
           /\ ini_path' = IF ext # ExtRaw /\ ext = ExtIni THEN Found(ini_path, ff) ELSE ini_path
    /\ scan_i' = scan_i + 1
    /\ UNCHANGED <<pc, arg, ret, fs, listing, mode, line_no, metadata, warnings, shape,
                   dim_names, nbytes, expected_nbytes, self_shape, self_dim_names, frames,
                   error, failed_at, round, last_write>>

\* if None in (ini_path, raw_path): raise ValueError (lines 53-56)
MissingFile ==
    /\ pc = "scan"
    /\ scan_i > Len(listing)
    /\ None \in {ini_path, raw_path}
    /\ Raise("ValueError", "scan")
    /\ UNCHANGED <<arg, ret, fs, listing, scan_i, mode, ini_path, raw_path, line_no,
                   metadata, warnings, shape, dim_names, nbytes, expected_nbytes,
                   self_shape, self_dim_names, frames, round, last_write>>

\* Both files found: metadata = Bunch() and the descriptor is opened (lines 58-62)
OpenDescriptor ==
    /\ pc = "scan"
    /\ scan_i > Len(listing)
    /\ None \notin {ini_path, raw_path}
    /\ pc' = "parse"
    /\ metadata' = Bunch
    /\ line_no' = 1
    /\ UNCHANGED <<arg, ret, fs, listing, scan_i, mode, ini_path, raw_path, warnings,
                   shape, dim_names, nbytes, expected_nbytes, self_shape, self_dim_names,
                   frames, error, failed_at, round, last_write>>

\* One pass of the loop over the descriptor's lines (lines 63-74)
ParseStep ==
    /\ pc = "parse"
    /\ line_no <= Len(fs[ini_path])
    /\ LineError(metadata, fs[ini_path][line_no]) = ""
    /\ metadata' = ParseLine(metadata, fs[ini_path][line_no])
    /\ line_no' = line_no + 1
    /\ UNCHANGED <<pc, arg, ret, fs, listing, scan_i, mode, ini_path, raw_path, warnings,
                   shape, dim_names, nbytes, expected_nbytes, self_shape, self_dim_names,
                   frames, error, failed_at, round, last_write>>

\* A pass of the loop that raises what the except clause does not catch
ParseRaise ==
    /\ pc = "parse"
    /\ line_no <= Len(fs[ini_path])
    /\ LineError(metadata, fs[ini_path][line_no]) # ""
    /\ Raise(LineError(metadata, fs[ini_path][line_no]), "parse")
    /\ UNCHANGED <<arg, ret, fs, listing, scan_i, mode, ini_path, raw_path, line_no,
                   metadata, warnings, shape, dim_names, nbytes, expected_nbytes,
                   self_shape, self_dim_names, frames, round, last_write>>

\* The loop ends, the file is closed: self.metadata = metadata (line 75)
ParseEnd ==
    /\ pc = "parse"
    /\ line_no > Len(fs[ini_path])
    /\ pc' = "schema"
    /\ UNCHANGED <<arg, ret, fs, listing, scan_i, mode, ini_path, raw_path, line_no,
                   metadata, warnings, shape, dim_names, nbytes, expected_nbytes,
                   self_shape, self_dim_names, frames, error, failed_at, round, last_write>>

\* self.metadata.experiment_type != 'XYT'
SchemaMismatch(md) == md[AttrExperimentType] # VStr(XYT)

\* if self.metadata.experiment_type != 'XYT': warnings.warn(...) (lines 77-78)
SchemaCheck ==
    /\ pc = "schema"
    /\ HasAttr(metadata, AttrExperimentType)
    /\ warnings' = IF SchemaMismatch(metadata) THEN Append(warnings, "schema") ELSE warnings
    /\ pc' = "shape"
    /\ UNCHANGED <<arg, ret, fs, listing, scan_i, mode, ini_path, raw_path, line_no,
                   metadata, shape, dim_names, nbytes, expected_nbytes, self_shape,
                   self_dim_names, frames, error, failed_at, round, last_write>>

\* self.metadata.experiment_type raises AttributeError: no such entry (line 77)
SchemaRaise ==
    /\ pc = "schema"
    /\ ~ HasAttr(metadata, AttrExperimentType)
    /\ Raise("AttributeError", "schema")
    /\ UNCHANGED <<arg, ret, fs, listing, scan_i, mode, ini_path, raw_path, line_no,
                   metadata, warnings, shape, dim_names, nbytes, expected_nbytes,
                   self_shape, self_dim_names, frames, round, last_write>>

\* nx, ny, nc, nframes and the local shape, dim_names (lines 80-90)
DeriveShape ==
    /\ pc = "shape"
    /\ ShapeError(metadata) = ""
    /\ LET nx == IntOf(metadata[AttrXPixels])
           ny == IntOf(metadata[AttrYPixels])
           nc == IntOf(metadata[AttrChannels])
           nframes == IntOf(metadata[AttrFrames])
       IN  /\ shape' = ShapeOf(nx, ny, nc, nframes)
           /\ dim_names' = DimNamesOf(nc)
    /\ pc' = "size"
    /\ UNCHANGED <<arg, ret, fs, listing, scan_i, mode, ini_path, raw_path, line_no,
                   metadata, warnings, nbytes, expected_nbytes, self_shape, self_dim_names,
                   frames, error, failed_at, round, last_write>>

\* One of the four int(metadata.<name>) raises (lines 80-83)
ShapeRaise ==
    /\ pc = "shape"
    /\ ShapeError(metadata) # ""
    /\ Raise(ShapeError(metadata), "shape")
    /\ UNCHANGED <<arg, ret, fs, listing, scan_i, mode, ini_path, raw_path, line_no,
                   metadata, warnings, shape, dim_names, nbytes, expected_nbytes,
                   self_shape, self_dim_names, frames, round, last_write>>

\* Faulty variant: the element size is left out of the expected size.
ExpectedBytesNoItemSize(sh) == Prod(sh)

\* expected_nbytes = np.prod(shape) * DTYPE.itemsize
ExpectedBytes(sh) == Prod(sh) * ItemSize

\* Faulty variant: a file of exactly the expected size is warned about too.
SizeMismatchOrEqual(actual, expected) == actual >= expected

\* if nbytes > expected_nbytes
SizeMismatch(actual, expected) == actual > expected

\* The size check, then self.shape, self.dim_names (lines 92-103)
SizeCheck ==
    /\ pc = "size"
    /\ nbytes' = Len(fs[raw_path])
    /\ expected_nbytes' = ExpectedBytes(shape)
    /\ warnings' = IF SizeMismatch(nbytes', expected_nbytes')
                   THEN Append(warnings, "size") ELSE warnings
    /\ self_shape' = shape
    /\ self_dim_names' = dim_names
    /\ pc' = "view"
    /\ UNCHANGED <<arg, ret, fs, listing, scan_i, mode, ini_path, raw_path, line_no,
                   metadata, shape, dim_names, frames, error, failed_at, round, last_write>>

\* Faulty variant: the view is always opened read-write.
MemmapModeReadWrite(m) == "r+"

\* mode=mode: the caller's mode is the mode np.memmap is given
MemmapMode(m) == m

\* self.frames = np.memmap(...) returns, and with it the constructor (lines 106-107)
ConstructView ==
    /\ pc = "view"
    /\ MemmapError(fs[raw_path], MemmapMode(mode), Prod(self_shape) * ItemSize) = ""
    /\ LET content == Sized(fs[raw_path], MemmapMode(mode), Prod(self_shape) * ItemSize)
       IN  /\ fs' = [fs EXCEPT ![raw_path] = content]
           /\ frames' = View(raw_path, content, MemmapMode(mode), self_shape)
    /\ pc' = "done"
    /\ UNCHANGED <<arg, ret, listing, scan_i, mode, ini_path, raw_path, line_no, metadata,
                   warnings, shape, dim_names, nbytes, expected_nbytes, self_shape,
                   self_dim_names, error, failed_at, round, last_write>>

\* np.memmap raises: the file is shorter than the array (lines 106-107)
ViewRaise ==
    /\ pc = "view"
    /\ MemmapError(fs[raw_path], MemmapMode(mode), Prod(self_shape) * ItemSize) # ""
    /\ Raise(MemmapError(fs[raw_path], MemmapMode(mode), Prod(self_shape) * ItemSize), "view")
    /\ fs' = [fs EXCEPT ![raw_path] = Opened(fs[raw_path], MemmapMode(mode))]
    /\ UNCHANGED <<arg, ret, listing, scan_i, mode, ini_path, raw_path, line_no, metadata,
                   warnings, shape, dim_names, nbytes, expected_nbytes, self_shape,
                   self_dim_names, frames, round, last_write>>

Construct ==
    \/ ScanEntry
    \/ MissingFile
    \/ OpenDescriptor
    \/ ParseStep
    \/ ParseRaise
    \/ ParseEnd
    \/ SchemaCheck
    \/ SchemaRaise
    \/ DeriveShape
    \/ ShapeRaise
    \/ SizeCheck
    \/ ConstructView
    \/ ViewRaise

----------------------------------------------------------------------------
(* The result object in use: assignments through self.frames, flush, and   *)
(* a second, read-only construction on the same directory                  *)

MaxWrites == 1

SampleValues == {0, 258, 65535}

Writable == {"r+", "w+"}

\* frames[idx] = v through a shared mapping: the file's bytes change
WriteShared ==
    /\ pc = "done" /\ round = 1
    /\ frames.mode \in Writable
    /\ last_write.count < MaxWrites
    /\ \E idx \in Indices(frames.shape), v \in SampleValues :
        /\ fs' = [fs EXCEPT ![frames.path] = Poke(@, FlatIndex(frames.shape, idx), v)]
        /\ last_write' = [idx |-> idx, val |-> v, before |-> fs[frames.path],
                          mode |-> frames.mode, flushed |-> FALSE,
                          count |-> last_write.count + 1]
    /\ frames' = [frames EXCEPT !.dirty = TRUE]
    /\ UNCHANGED <<pc, arg, ret, listing, scan_i, mode, ini_path, raw_path, line_no,
                   metadata, warnings, shape, dim_names, nbytes, expected_nbytes,
                   self_shape, self_dim_names, error, failed_at, round>>

\* frames[idx] = v through a copy-on-write mapping: only the private copy changes
WritePrivate ==
    /\ pc = "done" /\ round = 1
    /\ frames.mode = "c"
    /\ last_write.count < MaxWrites
    /\ \E idx \in Indices(frames.shape), v \in SampleValues :
        /\ frames' = [frames EXCEPT !.priv = Poke(@, FlatIndex(frames.shape, idx), v)]
        /\ last_write' = [idx |-> idx, val |-> v, before |-> fs[frames.path],
                          mode |-> frames.mode, flushed |-> FALSE,
                          count |-> last_write.count + 1]
    /\ UNCHANGED <<pc, arg, ret, fs, listing, scan_i, mode, ini_path, raw_path, line_no,
                   metadata, warnings, shape, dim_names, nbytes, expected_nbytes,
                   self_shape, self_dim_names, error, failed_at, round>>

\* frames[idx] = v through a read-only mapping raises ValueError: nothing is stored
WriteRefused ==
    /\ pc = "done" /\ round = 1
    /\ frames.mode = "r"
    /\ last_write.count < MaxWrites
    /\ last_write' = [last_write EXCEPT !.count = @ + 1]
    /\ UNCHANGED <<pc, arg, ret, fs, listing, scan_i, mode, ini_path, raw_path, line_no,
                   metadata, warnings, shape, dim_names, nbytes, expected_nbytes,
                   self_shape, self_dim_names, frames, error, failed_at, round>>

\* frames.flush(): the changed pages of a shared mapping are written back
Flush ==
    /\ pc = "done" /\ round = 1
    /\ frames.dirty
    /\ frames' = [frames EXCEPT !.dirty = FALSE]
    /\ last_write' = [last_write EXCEPT !.flushed = TRUE]
    /\ UNCHANGED <<pc, arg, ret, fs, listing, scan_i, mode, ini_path, raw_path, line_no,
                   metadata, warnings, shape, dim_names, nbytes, expected_nbytes,
                   self_shape, self_dim_names, error, failed_at, round>>

\* SciScanStack(dirpath): the same directory is opened again, mode 'r'
Reopen ==
    /\ pc = "done" /\ round = 1
    /\ round' = 2
    /\ pc' = "scan"
    /\ scan_i' = 1
    /\ mode' = "r"
    /\ ini_path' = None
    /\ raw_path' = None
    /\ line_no' = 1
    /\ metadata' = Bunch
    /\ warnings' = <<>>
    /\ shape' = <<>>
    /\ dim_names' = <<>>
    /\ nbytes' = 0
    /\ expected_nbytes' = 0
    /\ self_shape' = <<>>
    /\ self_dim_names' = <<>>
    /\ frames' = NoView
    /\ UNCHANGED <<arg, ret, fs, listing, error, failed_at, last_write>>

----------------------------------------------------------------------------
(* Directories and descriptors the constructor is run on                   *)

MaxDim == 2

MaxFileLen == 5

FileRawA == <<"a", ".", "r", "a", "w">>

FileRawB == <<"b", ".", "r", "a", "w">>

FileIniA == <<"a", ".", "i", "n", "i">>

FileIniB == <<"b", ".", "i", "n", "i">>

FileTxt == <<"n", ".", "t", "x", "t">>

FileDotIni == <<".", "i", "n", "i">>

\* A '.raw' file of n bytes: byte k holds k
RawBytes(n) == [k \in 1..n |-> k]

Range(s) == {s[k] : k \in 1..Len(s)}

\* The files of a directory: every '.ini' file holds the descriptor, every
\* '.raw' file the n bytes, any other file nothing
Files(ls, descriptor, n) ==
    [p \in {Join(dirpath, ff) : ff \in Range(ls)} |->
        IF SplitExt(p) = ExtIni THEN descriptor
        ELSE IF SplitExt(p) = ExtRaw THEN RawBytes(n)
        ELSE <<>>]

\* key = value, as a line of the descriptor
Line(key, val) == key \o <<" ", "=", " ">> \o val \o <<"\n">>

Quoted(s) == <<"\"">> \o s \o <<"\"">>

KeyExperimentType == <<"e", "x", "p", "e", "r", "i", "m", "e", "n", "t", ".", "t", "y", "p", "e">>

KeyXPixels == <<"x", ".", "p", "i", "x", "e", "l", "s">>

KeyYPixels == <<"y", ".", "p", "i", "x", "e", "l", "s">>

KeyChannels == <<"n", "o", ".", "o", "f", ".", "c", "h", "a", "n", "n", "e", "l", "s">>

KeyFrames == <<"n", "o", ".", "o", "f", ".", "f", "r", "a", "m", "e", "s", ".", "t", "o", ".", "a", "c", "q", "u", "i", "r", "e">>

SectionLine == <<"[", "_", "]">> \o <<"\n">>

\* The descriptor with these value texts; an absent (None) text leaves the line out
Descriptor(et, x, y, c, f) ==
    <<SectionLine>>
    \o (IF et = None THEN <<>> ELSE <<Line(KeyExperimentType, et)>>)
    \o (IF x = None THEN <<>> ELSE <<Line(KeyXPixels, x)>>)
    \o (IF y = None THEN <<>> ELSE <<Line(KeyYPixels, y)>>)
    \o (IF c = None THEN <<>> ELSE <<Line(KeyChannels, c)>>)
    \o (IF f = None THEN <<>> ELSE <<Line(KeyFrames, f)>>)

DimTexts == { <<Digits[k + 1]>> : k \in 1..MaxDim }

ChannelTexts == { <<Digits[k + 1]>> : k \in 0..MaxDim }

TypeTexts == { None, Quoted(XYT), Quoted(<<"X", "Y", "Z", "T">>) }

GridDescriptors ==
    { Descriptor(et, x, y, c, f) :
        et \in TypeTexts, x \in DimTexts, y \in DimTexts, c \in ChannelTexts, f \in DimTexts }

\* Descriptors off the grid: a float and a bool among the sizes, a size that
\* is no number, a missing size, a line that stores the key "update"
OddDescriptors ==
    { Descriptor(Quoted(XYT), <<"2", ".", "9">>, <<"t", "r", "u", "e">>, <<"1">>, <<"1">>),
      Descriptor(Quoted(XYT), <<"1">>, <<"1">>, <<"1">>, <<"a", "b", "c">>),
      Descriptor(Quoted(XYT), <<"1">>, <<"1">>, None, <<"1">>),
      Descriptor(XYT, <<"1">>, <<"1">>, <<"1", ".", "0">>, <<"i", "n", "f">>),
      <<Line(StrUpdate, <<"1">>)>> \o Descriptor(Quoted(XYT), <<"1">>, <<"1">>, <<"1">>, <<"1">>) }

Descriptors == GridDescriptors \cup OddDescriptors

Listings ==
    { <<>>,
      <<FileRawA>>,
      <<FileDotIni, FileRawA, FileTxt>>,
      <<FileRawA, FileIniA>>,
      <<FileIniA, FileTxt, FileRawA>>,
      <<FileRawA, FileRawB, FileIniB, FileIniA>> }

\* The state a call SciScanStack(dirpath, mode) starts in
Start(ls, descriptor, n, m) ==
    /\ pc = "scan"
    /\ arg = <<>>
    /\ ret = <<>>
    /\ listing = ls
    /\ fs = Files(ls, descriptor, n)
    /\ scan_i = 1
    /\ mode = m
    /\ ini_path = None
    /\ raw_path = None
    /\ line_no = 1
    /\ metadata = Bunch
    /\ warnings = <<>>
    /\ shape = <<>>
    /\ dim_names = <<>>
    /\ nbytes = 0
    /\ expected_nbytes = 0
    /\ self_shape = <<>>
    /\ self_dim_names = <<>>
    /\ frames = NoView
    /\ error = ""
    /\ failed_at = ""
    /\ round = 1
    /\ last_write = NoWrite

Init ==
    \E ls \in Listings, d \in Descriptors, n \in 0..MaxFileLen, m \in Modes :
        Start(ls, d, n, m)

Next == Construct

Spec == Init /\ [][Next]_vars

----------------------------------------------------------------------------
(* Properties of the constructor                                           *)

Count(s, x) == Cardinality({k \in 1..Len(s) : s[k] = x})

\* The call has derived the shape and assigned self.shape, self.dim_names
ShapeAssigned == self_dim_names # <<>>

\* C1: whenever the constructor has assigned self.shape and self.dim_names,
\* with nx, ny, nc, nframes the integers the four required attributes coerce
\* to: nc <= 1 gives dim_names (T,Y,X) and shape (nframes, ny, nx), nc > 1
\* gives (T,C,Y,X) and (nframes, nc, ny, nx); the two have the same length,
\* and no axis named C has length 1.  A call that returns has assigned them.
C1_ShapeDerivation ==
    /\ pc = "done" => ShapeAssigned
    /\ ShapeAssigned =>
        LET nx == IntOf(metadata[AttrXPixels])
            ny == IntOf(metadata[AttrYPixels])
            nc == IntOf(metadata[AttrChannels])
            nframes == IntOf(metadata[AttrFrames])
        IN  /\ nc <= 1 => /\ self_dim_names = <<"T", "Y", "X">>
                          /\ self_shape = <<nframes, ny, nx>>
            /\ nc > 1 => /\ self_dim_names = <<"T", "C", "Y", "X">>
                         /\ self_shape = <<nframes, nc, ny, nx>>
            /\ Len(self_shape) = Len(self_dim_names)
            /\ \A k \in 1..Len(self_dim_names) : self_dim_names[k] = "C" => self_shape[k] # 1

\* Both layouts have been constructed: here the one with a channel axis of
\* length 2, built from a descriptor whose sizes were a float and a bool too.
C1_Witness ==
    /\ pc = "done"
    /\ self_dim_names = <<"T", "C", "Y", "X">>
    /\ self_shape[2] = 2

C1_WitnessSingle ==
    /\ pc = "done"
    /\ self_dim_names = <<"T", "Y", "X">>
    /\ metadata[AttrChannels] = VInt(1)

\* The size check has been made and found the file shorter than the array
ShortFile == ShapeAssigned /\ nbytes < expected_nbytes

\* C2 as stated: in every mode a file shorter than product(shape) x 2 makes
\* the construction fail, at view construction.
C2_FailsInEveryMode ==
    (ShortFile /\ pc \in {"done", "failed"}) => (pc = "failed" /\ failed_at = "view")

\* C2, amended: in the modes r and c a file shorter than product(shape) x 2
\* makes the construction fail with no view produced, and the failure is
\* raised by the view construction, never by the size comparison; in the modes
\* r+ and w+ the construction succeeds and the file has the expected size.
C2_ShortFile ==
    /\ failed_at # "size"
    /\ (ShortFile /\ mode \in {"r", "c"}) =>
            /\ pc \in {"view", "failed"}
            /\ pc = "failed" => (failed_at = "view" /\ error = "ValueError")
            /\ frames = NoView
    /\ (ShortFile /\ mode \in {"r+", "w+"}) =>
            /\ pc \in {"view", "done"}
            /\ pc = "done" => Len(fs[raw_path]) = expected_nbytes

C2_Witness ==
    /\ ShortFile
    /\ mode = "c"
    /\ pc = "failed"
    /\ failed_at = "view"

\* C3: a construction that returns with the file exactly of the expected
\* size and experiment_type XYT has warned of nothing; once the size check
\* has found the file larger than expected, exactly one size warning has been
\* given, already before the view is constructed, and no other is added; and
\* with a file of at least the expected size the view construction succeeds.
C3_SizeWarning ==
    /\ (pc = "done" /\ nbytes = expected_nbytes /\ metadata[AttrExperimentType] = VStr(XYT))
            => warnings = <<>>
    /\ (ShapeAssigned /\ nbytes > expected_nbytes) => Count(warnings, "size") = 1
    /\ (ShapeAssigned /\ nbytes >= expected_nbytes) => pc \in {"view", "done"}

C3_Witness ==
    /\ pc = "done"
    /\ nbytes > expected_nbytes
    /\ warnings = <<"size">>

C3_WitnessExact ==
    /\ pc = "done"
    /\ nbytes = expected_nbytes
    /\ warnings = <<>>

\* The positions of the directory entries with this extension
WithExt(ext) == {k \in 1..Len(listing) : SplitExt(listing[k]) = ext}

Last(ks) == CHOOSE k \in ks : \A h \in ks : h <= k

\* C4: in a directory with no '.ini' or no '.raw' file the construction ends
\* with the missing-file ValueError, raised by the scan: the descriptor was
\* never opened or parsed and there is no view.  In a directory with both,
\* that error is never raised, and once the scan is over ini_path and raw_path
\* are the last entries of their extensions in the order of the scan.
C4_MissingFile ==
    /\ (WithExt(ExtIni) = {} \/ WithExt(ExtRaw) = {}) =>
            /\ pc \in {"scan", "failed"}
            /\ pc = "failed" => (failed_at = "scan" /\ error = "ValueError")
            /\ metadata = Bunch /\ line_no = 1 /\ frames = NoView
    /\ (WithExt(ExtIni) # {} /\ WithExt(ExtRaw) # {}) =>
            /\ failed_at # "scan"
            /\ (pc # "scan" \/ scan_i > Len(listing)) =>
                    /\ ini_path = Join(dirpath, listing[Last(WithExt(ExtIni))])
                    /\ raw_path = Join(dirpath, listing[Last(WithExt(ExtRaw))])

\* Two '.raw' and two '.ini' files: the later of each is the one used.
C4_Witness ==
    /\ pc = "done"
    /\ Cardinality(WithExt(ExtRaw)) = 2
    /\ raw_path = Join(dirpath, FileRawB)
    /\ ini_path = Join(dirpath, FileIniA)

C4_WitnessMissing ==
    /\ pc = "failed"
    /\ failed_at = "scan"
    /\ WithExt(ExtRaw) # {}

\* The schema check of lines 77-78 is behind the call
SchemaChecked == pc \in {"shape", "size", "view", "done"} \/ failed_at \in {"shape", "view"}

\* C9 as stated: the schema warning is given exactly when the mapping holds
\* experiment_type with a value other than 'XYT', and the schema check never
\* ends the construction: a descriptor without experiment_type goes on to the
\* shape derivation.
C9_SchemaWarningNeverFatal ==
    /\ failed_at # "schema"
    /\ SchemaChecked =>
        (Count(warnings, "schema") > 0
            <=> (HasAttr(metadata, AttrExperimentType)
                 /\ metadata[AttrExperimentType] # VStr(XYT)))

----------------------------------------------------------------------------
(* str2num and the key sanitization, applied to strings on their own       *)

MaxStrLen == 3

MaxKeyLen == 6

StrAlphabet == {"0", "1", ".", "e", "-", " ", "t"}

KeyAlphabet == {".", "_", "a"}

Strings(alphabet, n) == UNION { [1..k -> alphabet] : k \in 0..n }

Str2numSamples ==
    { <<"T", "r", "u", "e">>, <<"t", "R", "u", "E">>, <<"F", "A", "L", "S", "E">>, <<"f", "a", "l", "s", "e">>, <<"t", "r", "u", "e", "r">>, <<"a", "b", "c">>, <<"4", "2">>, <<"4", ".", "2">>, <<"0", "0", "4", "2">>, <<"+", "7">>,
      <<"1", "e", "2">>, <<"i", "n", "f">>, <<"N", "a", "N">>, <<"1", "_", "0">>, <<"0", "x", "1">> }

KeySamples == { <<"a", ".", "b", ".", ".", "c">>, <<"x", ".", "p", "i", "x", "e", "l", "s">>, <<"n", "o", ".", "o", "f", ".", "f", "r", "a", "m", "e", "s", ".", "t", "o", ".", "a", "c", "q", "u", "i", "r", "e">>, <<"a", ".", ".", ".", "b">> }

\* A state with no constructor call in it: pc names the function to apply
Apply(f, a) ==
    /\ pc = f
    /\ arg = a
    /\ ret = <<>>
    /\ listing = <<>>
    /\ fs = Files(<<>>, <<>>, 0)
    /\ scan_i = 1
    /\ mode = "r"
    /\ ini_path = None
    /\ raw_path = None
    /\ line_no = 1
    /\ metadata = Bunch
    /\ warnings = <<>>
    /\ shape = <<>>
    /\ dim_names = <<>>
    /\ nbytes = 0
    /\ expected_nbytes = 0
    /\ self_shape = <<>>
    /\ self_dim_names = <<>>
    /\ frames = NoView
    /\ error = ""
    /\ failed_at = ""
    /\ round = 1
    /\ last_write = NoWrite

Return(f, value) ==
    /\ pc = f
    /\ pc' = "returned"
    /\ ret' = value
    /\ UNCHANGED <<arg, fs, listing, scan_i, mode, ini_path, raw_path, line_no, metadata,
                   warnings, shape, dim_names, nbytes, expected_nbytes, self_shape,
                   self_dim_names, frames, error, failed_at, round, last_write>>

\* str2num(arg)
CallStr2num == Return("str2num", str2num(arg))

InitStr2num ==
    \E a \in Strings(StrAlphabet, MaxStrLen) \cup Str2numSamples : Apply("str2num", a)

NextStr2num == CallStr2num

SpecStr2num == InitStr2num /\ [][NextStr2num]_vars

\* key = key.replace('.', '_'); key = key.replace('__', '_')
CallSanitize == Return("sanitize_key", sanitize_key(arg))

InitKey ==
    \E a \in Strings(KeyAlphabet, MaxKeyLen) \cup KeySamples : Apply("sanitize_key", a)

NextKey == CallSanitize

SpecKey == InitKey /\ [][NextKey]_vars

AllDigits(s) == s # <<>> /\ \A k \in 1..Len(s) : IsDigit(s[k])

\* C6: str2num returns a bool exactly for the strings that are 'true' or
\* 'false' whatever their case (True for the first); of the others, an int
\* exactly for those int() parses, and so the digits' number for a string of
\* digits; of the rest, a float exactly for those float() parses; and any
\* other string itself.
C6_Str2numPriority ==
    pc = "returned" =>
        LET isBool == Lower(arg) \in {StrTrue, StrFalse}
        IN  /\ ret.type = "bool" <=> isBool
            /\ isBool => ret = VBool(Lower(arg) = StrTrue)
            /\ ret.type = "int" <=> (~ isBool /\ IsIntLiteral(arg))
            /\ AllDigits(arg) => ret = VInt(Num(arg))
            /\ ret.type = "float" <=> (~ isBool /\ ~ IsIntLiteral(arg) /\ IsFloatLiteral(arg))
            /\ ret.type = "str" <=> (~ isBool /\ ~ IsIntLiteral(arg) /\ ~ IsFloatLiteral(arg))
            /\ ret.type = "str" => ret = VStr(arg)

\* A string of digits that float() parses too has come back as the int 42.
C6_Witness ==
    /\ pc = "returned"
    /\ arg = <<"4", "2">>
    /\ IsFloatLiteral(arg)
    /\ ret = VInt(42)

\* s holds three or more consecutive characters that are '.' or '_'
HasLongRun(s) ==
    \E k \in 1..(Len(s) - 2) : \A h \in k..(k + 2) : s[h] \in {".", "_"}

\* C7 as stated: every sanitized key holds no '.' and no '__', and
\* sanitizing it again returns it unchanged.
C7_AlwaysCollapsed ==
    pc = "returned" =>
        /\ ~ Contains(ret, <<".">>)
        /\ ~ Contains(ret, <<"_", "_">>)
        /\ sanitize_key(ret) = ret

\* C7, amended: every sanitized key holds no '.'; it holds '__' exactly when
\* the raw key holds three or more consecutive characters that are '.' or
\* '_', and when the raw key holds no such run, sanitizing it again returns it
\* unchanged.
C7_CollapsedUnlessLongRun ==
    pc = "returned" =>
        /\ ~ Contains(ret, <<".">>)
        /\ Contains(ret, <<"_", "_">>) <=> HasLongRun(arg)
        /\ ~ HasLongRun(arg) => sanitize_key(ret) = ret

C7_Witness ==
    /\ pc = "returned"
    /\ arg = <<"a", ".", "b", ".", ".", "c">>
    /\ ret = <<"a", "_", "b", "_", "c">>

----------------------------------------------------------------------------
(* The descriptor parse on its own: descriptors of arbitrary lines         *)

MaxLines == 2

SampleLines ==
    { Line(KeyXPixels, <<"2">>),
      Line(<<"k", ".", ".", "z">>, <<"\"", "a", "b", "c", "\"">>),
      Line(<<"k">>, <<>>),
      Line(<<"j">>, <<"\"", "\"">>),
      <<"a", "=", "b", "=", "c">> \o <<"\n">>,
      SectionLine,
      <<"\n">>,
      <<" ", "=", "5">>,
      Line(StrUpdate, <<"1">>) }

ParseDescriptors == Strings(SampleLines, MaxLines)

InitParse ==
    \E d \in ParseDescriptors : Start(<<FileRawA, FileIniA>>, d, 2, "r")

NextParse ==
    \/ ScanEntry
    \/ OpenDescriptor
    \/ ParseStep
    \/ ParseRaise
    \/ ParseEnd

SpecParse == InitParse /\ [][NextParse]_vars

\* The lines with exactly one '=' whose value, trimmed, is neither empty nor ""
KeptLines(lines) ==
    { k \in 1..Len(lines) :
        /\ Count(lines[k], "=") = 1
        /\ LET eq == FirstOf(lines[k], {"="})
           IN  Strip(Drop(lines[k], eq + 1)) \notin { <<>>, <<"\"", "\"">> } }

\* The sanitized key of a line with one '='
KeyOf(line) == sanitize_key(Strip(SubSeq(line, 1, FirstOf(line, {"="}) - 1)))

\* C5 as stated: no line ends the parse with an exception, and after the
\* parse the mapping's keys are exactly the sanitized keys of the lines with
\* exactly one '=' and a value that is neither empty nor "".
C5_KeysAndNoAbort ==
    /\ failed_at # "parse"
    /\ pc = "schema" =>
        DOMAIN metadata = { KeyOf(fs[ini_path][k]) : k \in KeptLines(fs[ini_path]) }

\* The part of C5 the code keeps: the keys of a parse that reaches its end.
C5_KeysAfterParse ==
    pc = "schema" =>
        DOMAIN metadata = { KeyOf(fs[ini_path][k]) : k \in KeptLines(fs[ini_path]) }

----------------------------------------------------------------------------
(* The view in use                                                         *)

ViewDescriptors ==
    { Descriptor(Quoted(XYT), <<"3">>, <<"2">>, <<"1">>, <<"2">>),
      Descriptor(Quoted(XYT), <<"3">>, <<"1">>, <<"2">>, <<"2">>) }

ViewFileLens == {0, 23, 24, 26}

InitView ==
    \E d \in ViewDescriptors, n \in ViewFileLens, m \in Modes :
        Start(<<FileRawA, FileIniA>>, d, n, m)

NextView ==
    \/ ScanEntry
    \/ OpenDescriptor
    \/ ParseStep
    \/ ParseEnd
    \/ SchemaCheck
    \/ DeriveShape
    \/ SizeCheck
    \/ ConstructView
    \/ ViewRaise
    \/ WriteShared
    \/ WritePrivate
    \/ WriteRefused
    \/ Flush
    \/ Reopen

SpecView == InitView /\ [][NextView]_vars

\* The byte offset the claim gives for an index of a 3- or 4-axis shape
ClaimedOffset(sh, idx) ==
    IF Len(sh) = 3
    THEN 2 * ((idx[1] * sh[2] + idx[2]) * sh[3] + idx[3])
    ELSE 2 * (((idx[1] * sh[2] + idx[2]) * sh[3] + idx[3]) * sh[4] + idx[4])

\* C8: after a value v was assigned at an index through a view of mode r+ or
\* w+ and flushed, the read-only reopening of the directory reads v at that
\* index; v's high byte is the file's byte at offset 2*((t*ny + y)*nx + x)
\* (2*(((t*nc + c)*ny + y)*nx + x) with a channel axis) and its low byte the
\* next, and every other byte of the file is as it was before the assignment.
C8_RoundTrip ==
    (round = 2 /\ pc = "done" /\ last_write.mode \in {"r+", "w+"} /\ last_write.flushed) =>
        LET file == fs[raw_path]
            off  == ClaimedOffset(self_shape, last_write.idx)
        IN  /\ ReadElem(frames, fs, last_write.idx) = last_write.val
            /\ file[off + 1] = last_write.val \div 256
            /\ file[off + 2] = last_write.val % 256
            /\ Len(file) = Len(last_write.before)
            /\ \A k \in 1..Len(file) :
                   k \notin {off + 1, off + 2} => file[k] = last_write.before[k]

C8_Witness ==
    /\ round = 2 /\ pc = "done"
    /\ last_write.mode = "r+"
    /\ last_write.flushed
    /\ last_write.val = 258
    /\ last_write.idx = <<1, 1, 0, 2>>

\* Construction leaves the bytes the files had in place (it may add bytes)
PrefixKept ==
    \A p \in DOMAIN fs : \A k \in 1..Len(fs[p]) : Len(fs'[p]) >= k /\ fs'[p][k] = fs[p][k]

\* C10 as stated: with mode r or c no step changes a file, and in no mode
\* does the view construction alter a byte within a file's length.
C10_NeverAltersInAnyMode ==
    [][ /\ mode \in {"r", "c"} => fs' = fs
        /\ pc = "view" => PrefixKept ]_vars

\* C10, amended: with mode r or c no step (construction, assignment through
\* the view, flush, reopening) changes a file's length or bytes; and in every
\* mode but w+ the view construction alters no byte within a file's length
\* (w+ truncates the raw file and refills it with zeros).
C10_FileUnchanged ==
    [][ /\ mode \in {"r", "c"} => fs' = fs
        /\ (pc = "view" /\ mode # "w+") => PrefixKept ]_vars

\* An assignment was made through a copy-on-write view: the view reads the
\* value, the file is as before.
C10_Witness ==
    /\ pc = "done" /\ round = 1
    /\ mode = "c"
    /\ last_write.idx # <<>>
    /\ ReadElem(frames, fs, last_write.idx) = last_write.val
    /\ fs[raw_path] = RawBytes(Len(fs[raw_path]))

====
